---- MODULE Spec2Model ----
(***************************************************************************)
(* Model of the App component of hacken-market-coins (the version with the *)
(* coin search box).  The React state of the component is the state of the *)
(* model; every event handler, together with the render and the effects    *)
(* React runs after it, is one action; every axios promise settling is one *)
(* action.                                                                  *)
(*                                                                          *)
(* JavaScript strings that the code takes apart (coin names, the text of   *)
(* the search box) are sequences of one-character strings.  Strings the    *)
(* code only stores and compares (currency, sort order, coin ids) are TLA+ *)
(* strings.                                                                 *)
(***************************************************************************)
EXTENDS Integers, Sequences, FiniteSets, TLC

VARIABLES
    coins,            \* useState<Coin[]>: the displayed rows (coin names)
    currency,         \* useState<string>
    sortOrder,        \* useState<string>
    perPage,          \* useState<number>
    currentPage,      \* useState<number>
    loading,          \* useState<boolean>
    error,            \* useState<string | null>
    searchInput,      \* useState<string>: text of the search box
    searchString,     \* useState<string>: committed coin id, '' when none
    allCoins,         \* useState<AllCoins[]>: the catalog
    filteredOptions,  \* useState<AllCoins[]>: the suggestion list
    mounted,          \* the mount effects have run
    catalogReq,       \* the /coins/list promise: "none", "pending", "done", "failed"
    inflight,         \* the /coins/markets promises not yet settled
    nDispatch,        \* number of /coins/markets requests issued so far
    lastQuery,        \* parameters sent with the latest /coins/markets request
    lastOp            \* the step taken last: its name and the deps before it

vars == <<coins, currency, sortOrder, perPage, currentPage, loading, error,
          searchInput, searchString, allCoins, filteredOptions, mounted,
          catalogReq, inflight, nDispatch, lastQuery, lastOp>>

-----------------------------------------------------------------------------
(* Bounds of the model *)

\* /coins/markets requests issued in one run, the one at mount included
MaxDispatch == 2

\* highest page number the pagination control is clicked to
MaxPage == 2

\* /coins/markets requests issued in one run of the filter controls
MaxFilterDispatch == 3

-----------------------------------------------------------------------------
(* Values *)

Null == "null"

FetchErrorMessage == "Failed to fetch data. Wait a moment and please try again."

\* The options of the two Select controls
Currencies == {"USD", "EUR"}

SortOrders == {"market_cap_desc", "market_cap_asc"}

\* What the handlers can be called with: they take any string
CurrencyArgs == Currencies \cup {"GBP"}

SortOrderArgs == SortOrders \cup {"volume_desc"}

\* pageSizeOptions of the Table
PageSizeOptions == {5, 10, 20, 50, 100}

\* The page sizes chosen in the runs
PageSizeArgs == {10, 20}

\* TablePaginationConfig: current and pageSize are optional fields
PaginationArgs ==
    [current : 1..MaxPage, pageSize : PageSizeArgs]
        \cup [current : 1..MaxPage] \cup [pageSize : PageSizeArgs]
        \cup {[total |-> 10000]}

Whitespace == {" "}

\* A catalog the /coins/list endpoint can answer with: one name with a leading
\* blank, then two names that differ only in case
Catalog ==
    << [id |-> "blank-coin", name |-> <<" ", "b">>],
       [id |-> "bitcoin",    name |-> <<"B", "i">>],
       [id |-> "bitcoin-2",  name |-> <<"b", "I">>] >>

CatalogResponses == {Catalog, << >>}

\* Texts typed into the search box
Inputs == { << >>, <<" ">>, <<"b">>, <<"B", "I">> }

\* Row lists the /coins/markets endpoint can answer with
MarketResponses == { << >>, <<"Tether", "Bitcoin">> }

-----------------------------------------------------------------------------
(* String functions of the JavaScript runtime *)

toLowerCaseChar(c) ==
    CASE c = "B" -> "b"
      [] c = "I" -> "i"
      [] OTHER   -> c

toLowerCase(s) == [i \in 1..Len(s) |-> toLowerCaseChar(s[i])]

startsWith(s, prefix) ==
    /\ Len(prefix) <= Len(s)
    /\ SubSeq(s, 1, Len(prefix)) = prefix

RECURSIVE trimStart(_)
trimStart(s) ==
    IF s # << >> /\ Head(s) \in Whitespace THEN trimStart(Tail(s)) ELSE s

RECURSIVE trimEnd(_)
trimEnd(s) ==
    IF s # << >> /\ s[Len(s)] \in Whitespace
    THEN trimEnd(SubSeq(s, 1, Len(s) - 1))
    ELSE s

trim(s) == trimEnd(trimStart(s))

\* JavaScript truthiness of a string
truthy(s) == s # << >>

-----------------------------------------------------------------------------
(* The component *)

\* The dependency list of the markets effect, in its order
Deps == <<currency, perPage, sortOrder, currentPage, searchString>>

\* A dependency comparison that always reports a change: the effect has no
\* dependency list
depsChangedAlways(old, new) == TRUE

\* A dependency list without searchString
depsChangedNoSearch(old, new) == SubSeq(old, 1, 4) # SubSeq(new, 1, 4)

\* React re-runs an effect when some dependency is not Object.is-equal
depsChanged(old, new) == old # new

\* A params object whose page is the one of the render before
requestParamsStalePage(c, o, pp, cp, s) ==
    [vs_currency |-> c, order |-> o, per_page |-> pp, page |-> currentPage,
     sparkline |-> FALSE, ids |-> s]

\* The params object handed to axios.get
requestParams(c, o, pp, cp, s) ==
    [vs_currency |-> c, order |-> o, per_page |-> pp, page |-> cp,
     sparkline |-> FALSE, ids |-> s]

\* axios leaves out the params whose value is null or undefined, and no others
paramsSent(params) ==
    [k \in {"per_page", "page", "sparkline"}
           \cup {k \in {"vs_currency", "order", "ids"} : params[k] # Null}
        |-> params[k]]

\* fetchCoins up to its await: setLoading(true) and the request goes out
fetchCoins(c, o, pp, cp, s) ==
    /\ loading' = TRUE
    /\ nDispatch' = nDispatch + 1
    /\ inflight' = inflight \cup
           {[seq |-> nDispatch + 1, query |-> paramsSent(requestParams(c, o, pp, cp, s))]}
    /\ lastQuery' = paramsSent(requestParams(c, o, pp, cp, s))

\* The render after a batch of state updates, and the markets effect after it
Commit(c, o, pp, cp, s) ==
    /\ currency' = c
    /\ sortOrder' = o
    /\ perPage' = pp
    /\ currentPage' = cp
    /\ searchString' = s
    /\ IF depsChanged(Deps, <<c, pp, o, cp, s>>)
       THEN fetchCoins(c, o, pp, cp, s)
       ELSE UNCHANGED <<loading, inflight, nDispatch, lastQuery>>

Did(op) == lastOp' = [op |-> op, pre |-> Deps]

Init ==
    /\ coins = << >>
    /\ currency = "USD"
    /\ sortOrder = "market_cap_desc"
    /\ perPage = 10
    /\ currentPage = 1
    /\ loading = FALSE
    /\ error = Null
    /\ searchInput = << >>
    /\ searchString = ""
    /\ allCoins = << >>
    /\ filteredOptions = << >>
    /\ mounted = FALSE
    /\ catalogReq = "none"
    /\ inflight = {}
    /\ nDispatch = 0
    /\ lastQuery = << >>
    /\ lastOp = [op |-> "init", pre |-> << >>]

\* The two effects of the first render: fetchAllCoins() and fetchCoins()
Mount ==
    /\ ~mounted
    /\ mounted' = TRUE
    /\ catalogReq' = "pending"
    /\ fetchCoins(currency, sortOrder, perPage, currentPage, searchString)
    /\ Did("Mount")
    /\ UNCHANGED <<coins, currency, sortOrder, perPage, currentPage, error,
                   searchInput, searchString, allCoins, filteredOptions>>

fetchAllCoinsResolved(data) ==
    /\ catalogReq = "pending"
    /\ catalogReq' = "done"
    /\ allCoins' = data
    /\ Did("fetchAllCoinsResolved")
    /\ UNCHANGED <<coins, currency, sortOrder, perPage, currentPage, loading,
                   error, searchInput, searchString, filteredOptions, mounted,
                   inflight, nDispatch, lastQuery>>

\* A catch block that reports the catalog failure through setError
fetchAllCoinsRejectedSetsError ==
    /\ catalogReq = "pending"
    /\ catalogReq' = "failed"
    /\ error' = FetchErrorMessage
    /\ Did("fetchAllCoinsRejected")
    /\ UNCHANGED <<coins, currency, sortOrder, perPage, currentPage, loading,
                   searchInput, searchString, allCoins, filteredOptions,
                   mounted, inflight, nDispatch, lastQuery>>

\* fetchAllCoins has no catch: the rejection is unhandled and sets nothing
fetchAllCoinsRejected ==
    /\ catalogReq = "pending"
    /\ catalogReq' = "failed"
    /\ Did("fetchAllCoinsRejected")
    /\ UNCHANGED <<coins, currency, sortOrder, perPage, currentPage, loading,
                   error, searchInput, searchString, allCoins, filteredOptions,
                   mounted, inflight, nDispatch, lastQuery>>

\* A try block without setError(null)
fetchCoinsResolvedKeepsError(r, data) ==
    /\ r \in inflight
    /\ inflight' = inflight \ {r}
    /\ coins' = data
    /\ loading' = FALSE
    /\ Did("fetchCoinsResolved")
    /\ UNCHANGED <<currency, sortOrder, perPage, currentPage, searchInput, error,
                   searchString, allCoins, filteredOptions, mounted, catalogReq,
                   nDispatch, lastQuery>>

\* A try block that goes back to the first page once the rows are in
fetchCoinsResolvedResetsPage(r, data) ==
    /\ r \in inflight
    /\ inflight' = inflight \ {r}
    /\ coins' = data
    /\ error' = Null
    /\ loading' = FALSE
    /\ currentPage' = 1
    /\ Did("fetchCoinsResolved")
    /\ UNCHANGED <<currency, sortOrder, perPage, searchInput,
                   searchString, allCoins, filteredOptions, mounted, catalogReq,
                   nDispatch, lastQuery>>

\* fetchCoins after its await, the request answered
fetchCoinsResolved(r, data) ==
    /\ r \in inflight
    /\ inflight' = inflight \ {r}
    /\ coins' = data
    /\ error' = Null
    /\ loading' = FALSE
    /\ Did("fetchCoinsResolved")
    /\ UNCHANGED <<currency, sortOrder, perPage, currentPage, searchInput,
                   searchString, allCoins, filteredOptions, mounted, catalogReq,
                   nDispatch, lastQuery>>

\* A catch block that also empties the table
fetchCoinsRejectedBlanking(r) ==
    /\ r \in inflight
    /\ inflight' = inflight \ {r}
    /\ coins' = << >>
    /\ error' = FetchErrorMessage
    /\ loading' = FALSE
    /\ Did("fetchCoinsRejected")
    /\ UNCHANGED <<currency, sortOrder, perPage, currentPage, searchInput,
                   searchString, allCoins, filteredOptions, mounted, catalogReq,
                   nDispatch, lastQuery>>

\* fetchCoins after its await, the request failed
fetchCoinsRejected(r) ==
    /\ r \in inflight
    /\ inflight' = inflight \ {r}
    /\ error' = FetchErrorMessage
    /\ loading' = FALSE
    /\ Did("fetchCoinsRejected")
    /\ UNCHANGED <<coins, currency, sortOrder, perPage, currentPage, searchInput,
                   searchString, allCoins, filteredOptions, mounted, catalogReq,
                   nDispatch, lastQuery>>

\* A currency change that goes back to the first page
handleCurrencyChangeResetsPage(value) ==
    /\ mounted
    /\ Commit(value, sortOrder, perPage, 1, searchString)
    /\ Did("handleCurrencyChange")
    /\ UNCHANGED <<coins, error, searchInput, allCoins, filteredOptions, mounted,
                   catalogReq>>

handleCurrencyChange(value) ==
    /\ mounted
    /\ Commit(value, sortOrder, perPage, currentPage, searchString)
    /\ Did("handleCurrencyChange")
    /\ UNCHANGED <<coins, error, searchInput, allCoins, filteredOptions, mounted,
                   catalogReq>>

handleSortOrderChange(value) ==
    /\ mounted
    /\ Commit(currency,
              IF value = "market_cap_desc" THEN "market_cap_desc" ELSE "market_cap_asc",
              perPage, currentPage, searchString)
    /\ Did("handleSortOrderChange")
    /\ UNCHANGED <<coins, error, searchInput, allCoins, filteredOptions, mounted,
                   catalogReq>>

\* a || 0
orElseZero(rec, key, dflt) == IF key \in DOMAIN rec THEN rec[key] ELSE 0

\* a ?? b
orElse(rec, key, dflt) == IF key \in DOMAIN rec THEN rec[key] ELSE dflt

\* The two setters each followed by a render of their own: the effect runs
\* after setCurrentPage and again after setPerPage
handleTableChangeUnbatched(pagination) ==
    LET cp == orElse(pagination, "current", currentPage)
        pp == orElse(pagination, "pageSize", perPage)
        first == IF cp # currentPage
                 THEN {[seq |-> nDispatch + 1,
                        query |-> paramsSent(requestParams(currency, sortOrder, perPage,
                                                           cp, searchString))]}
                 ELSE {}
        n1 == nDispatch + Cardinality(first)
        second == IF pp # perPage
                  THEN {[seq |-> n1 + 1,
                         query |-> paramsSent(requestParams(currency, sortOrder, pp,
                                                            cp, searchString))]}
                  ELSE {}
    IN  /\ mounted
        /\ nDispatch < MaxDispatch
        /\ currentPage' = cp
        /\ perPage' = pp
        /\ inflight' = inflight \cup first \cup second
        /\ nDispatch' = n1 + Cardinality(second)
        /\ loading' = (loading \/ first \cup second # {})
        /\ lastQuery' = IF first \cup second = {} THEN lastQuery
                        ELSE paramsSent(requestParams(currency, sortOrder, pp, cp,
                                                      searchString))
        /\ Did("handleTableChange")
        /\ UNCHANGED <<coins, currency, sortOrder, searchString, error, searchInput,
                       allCoins, filteredOptions, mounted, catalogReq>>

\* Both setters are called in one event handler: React renders once after it
handleTableChange(pagination) ==
    /\ mounted
    /\ Commit(currency, sortOrder,
              orElse(pagination, "pageSize", perPage),
              orElse(pagination, "current", currentPage),
              searchString)
    /\ Did("handleTableChange")
    /\ UNCHANGED <<coins, error, searchInput, allCoins, filteredOptions, mounted,
                   catalogReq>>

\* A test that compares the names as they are written
nameEqualsExact(coin, input) == coin.name = input

\* The test of allCoins.find in handleSearch
nameEquals(coin, input) == toLowerCase(coin.name) = toLowerCase(input)

\* What Array.prototype.find returns when no element passes the test
Undefined == [undefined |-> TRUE]

\* Array.prototype.find with that test: the first match, or undefined
RECURSIVE find(_, _)
find(list, input) ==
    IF list = << >> THEN Undefined
    ELSE IF nameEquals(Head(list), input) THEN Head(list)
    ELSE find(Tail(list), input)

handleSearch ==
    /\ mounted
    /\ LET selectedCoin == find(allCoins, searchInput)
       IN  Commit(currency, sortOrder, perPage, currentPage,
                  IF selectedCoin # Undefined THEN selectedCoin.id ELSE "")
    /\ Did("handleSearch")
    /\ UNCHANGED <<coins, error, searchInput, allCoins, filteredOptions, mounted,
                   catalogReq>>

\* A Clear button that empties the box and leaves the committed search
handleClearSearchKeepsSearch ==
    /\ mounted
    /\ searchInput' = << >>
    /\ filteredOptions' = << >>
    /\ Commit(currency, sortOrder, perPage, currentPage, searchString)
    /\ Did("handleClearSearch")
    /\ UNCHANGED <<coins, error, allCoins, mounted, catalogReq>>

handleClearSearch ==
    /\ mounted
    /\ searchInput' = << >>
    /\ filteredOptions' = << >>
    /\ Commit(currency, sortOrder, perPage, currentPage, "")
    /\ Did("handleClearSearch")
    /\ UNCHANGED <<coins, error, allCoins, mounted, catalogReq>>

\* A test that compares the letters as they are written
nameStartsWithExact(coin, value) == startsWith(coin.name, value)

\* The test of allCoins.filter in handleInputChange
nameStartsWith(coin, value) == startsWith(toLowerCase(coin.name), toLowerCase(value))

\* The suggestion list handleInputChange computes for a typed value
suggestions(list, value) ==
    IF truthy(trim(value))
    THEN SelectSeq(list, LAMBDA coin : nameStartsWith(coin, value))
    ELSE << >>

\* A search box that commits the search on every keystroke
handleInputChangeLive(value) ==
    /\ mounted
    /\ searchInput' = value
    /\ filteredOptions' = suggestions(allCoins, value)
    /\ LET selectedCoin == find(allCoins, value)
       IN  Commit(currency, sortOrder, perPage, currentPage,
                  IF selectedCoin # Undefined THEN selectedCoin.id ELSE "")
    /\ Did("handleInputChange")
    /\ UNCHANGED <<coins, error, allCoins, mounted, catalogReq>>

handleInputChange(value) ==
    /\ mounted
    /\ searchInput' = value
    /\ filteredOptions' = suggestions(allCoins, value)
    /\ Commit(currency, sortOrder, perPage, currentPage, searchString)
    /\ Did("handleInputChange")
    /\ UNCHANGED <<coins, error, allCoins, mounted, catalogReq>>

\* An error message rendered whenever an error is recorded
errorMessageShownAlways == error # Null /\ error # ""

\* The render: {coins.length < 1 && error && <div className="error-message">}
errorMessageShown == Len(coins) < 1 /\ (error # Null /\ error # "")

\* A step of a run bounded to limit markets requests issues one only while
\* fewer than limit have been issued
CanIssue(limit) == nDispatch < limit \/ nDispatch' = nDispatch

Next ==
    \/ Mount
    \/ \E data \in CatalogResponses : fetchAllCoinsResolved(data)
    \/ fetchAllCoinsRejected
    \/ \E r \in inflight, data \in MarketResponses : fetchCoinsResolved(r, data)
    \/ \E r \in inflight : fetchCoinsRejected(r)
    \/ \E value \in CurrencyArgs : handleCurrencyChange(value) /\ CanIssue(MaxDispatch)
    \/ \E value \in SortOrderArgs : handleSortOrderChange(value) /\ CanIssue(MaxDispatch)
    \/ \E pagination \in PaginationArgs :
          handleTableChange(pagination) /\ CanIssue(MaxDispatch)
    \/ handleSearch /\ CanIssue(MaxDispatch)
    \/ handleClearSearch /\ CanIssue(MaxDispatch)
    \/ \E value \in Inputs : handleInputChange(value) /\ CanIssue(MaxDispatch)

Spec == Init /\ [][Next]_vars

\* The runs of the filter controls: one request more, with the catalog loaded,
\* the options of the two Select controls, the pagination control clicked to
\* another page and size, and one name typed
FilterPaginationArgs ==
    {[current |-> 2, pageSize |-> 20], [current |-> 2], [pageSize |-> 20],
     [current |-> 1, pageSize |-> 10]}

FilterInputs == { <<"B", "I">> }

NextFilter ==
    \/ Mount
    \/ fetchAllCoinsResolved(Catalog)
    \/ \E r \in inflight, data \in MarketResponses : fetchCoinsResolved(r, data)
    \/ \E r \in inflight : fetchCoinsRejected(r)
    \/ \E value \in Currencies : handleCurrencyChange(value) /\ CanIssue(MaxFilterDispatch)
    \/ \E value \in SortOrders : handleSortOrderChange(value) /\ CanIssue(MaxFilterDispatch)
    \/ \E pagination \in FilterPaginationArgs :
          handleTableChange(pagination) /\ CanIssue(MaxFilterDispatch)
    \/ handleSearch /\ CanIssue(MaxFilterDispatch)
    \/ handleClearSearch /\ CanIssue(MaxFilterDispatch)
    \/ \E value \in FilterInputs : handleInputChange(value) /\ CanIssue(MaxFilterDispatch)

SpecFilter == Init /\ [][NextFilter]_vars

-----------------------------------------------------------------------------
(* Vocabulary of the properties *)

\* The handlers that set a field of the filter state
Setters == {"handleCurrencyChange", "handleSortOrderChange", "handleTableChange",
            "handleSearch", "handleClearSearch"}

\* The requests a step issues, and the requests a step settles
Issued == inflight' \ inflight

Settled == inflight \ inflight'

\* The filter state written out as the parameters of a request
Projection(deps) ==
    [vs_currency |-> deps[1], order |-> deps[3], per_page |-> deps[2],
     page |-> deps[4], sparkline |-> FALSE, ids |-> deps[5]]

-----------------------------------------------------------------------------
(* C1 *)

\* C1: when a markets request settles after a later one was issued, the step
\* leaves coins, error and loading as they were, so that only the latest
\* request's outcome is ever visible.
C1_SequenceGate ==
    [][\A r \in Settled : r.seq < nDispatch => UNCHANGED <<coins, error, loading>>]_vars

-----------------------------------------------------------------------------
(* C2 *)

\* C2: while the search term is empty, the latest markets request was sent
\* without the ids parameter (not with ids set to the empty string).
C2_EmptySearchOmitsIds ==
    (nDispatch > 0 /\ searchString = "") => "ids" \notin DOMAIN lastQuery

-----------------------------------------------------------------------------
(* C7 *)

\* C7: a currency or sort order outside the options leaves the field as it
\* was, and no markets request is sent with a currency or sort order outside
\* the options.
C7_FailClosed ==
    [][ /\ \A value \in CurrencyArgs \ Currencies :
              handleCurrencyChange(value) => currency' = currency
        /\ \A value \in SortOrderArgs \ SortOrders :
              handleSortOrderChange(value) => sortOrder' = sortOrder
        /\ \A r \in inflight' :
              r.query.vs_currency \in Currencies /\ r.query.order \in SortOrders
      ]_vars

-----------------------------------------------------------------------------
(* C3 *)

\* C3: every markets request is sent with exactly the filter state of the
\* render that issues it: currency, sort order, page size, page number and
\* search id, and nothing kept from an earlier render or response.
C3_DescriptorIsProjection ==
    [][ /\ \A r \in Issued : r.query = Projection(Deps')
        /\ nDispatch' # nDispatch => lastQuery' = Projection(Deps')
      ]_vars

\* A request is out with the filter state as it is now, while an earlier one,
\* sent with another filter state, is still unanswered
C3_Witness ==
    /\ nDispatch >= 2
    /\ lastQuery = Projection(Deps)
    /\ \E r \in inflight : r.query # lastQuery

-----------------------------------------------------------------------------
(* C4 *)

\* C4: a setter called with the value its field already has issues no markets
\* request and leaves loading as it was.
C4_SameValueNoDispatch ==
    [][ (lastOp'.op \in Setters /\ Deps' = Deps)
            => (nDispatch' = nDispatch /\ inflight' = inflight /\ loading' = loading)
      ]_vars

\* A setter was called with the current value while a request was unanswered
\* and after another had failed
C4_Witness ==
    /\ lastOp.op \in Setters
    /\ lastOp.pre = Deps
    /\ inflight # {}
    /\ loading
    /\ error = FetchErrorMessage

-----------------------------------------------------------------------------
(* C5 *)

\* C5: a setter call that changes the filter state issues exactly one markets
\* request, with the new filter state, and sets loading; no other step but
\* the mount issues a markets request.
C5_OneDispatchPerChange ==
    [][ /\ (lastOp'.op \in Setters /\ Deps' # Deps)
              => /\ nDispatch' = nDispatch + 1
                 /\ Cardinality(Issued) = 1
                 /\ \A r \in Issued : r.seq = nDispatch' /\ r.query = Projection(Deps')
                 /\ loading'
        /\ (nDispatch' # nDispatch \/ Issued # {})
              => \/ lastOp'.op = "Mount"
                 \/ lastOp'.op \in Setters /\ Deps' # Deps
      ]_vars

\* A search was committed after the first answer had come: a new request is out
C5_Witness ==
    /\ lastOp.op = "handleSearch"
    /\ lastOp.pre # Deps
    /\ nDispatch = 2
    /\ Cardinality(inflight) = 1
    /\ loading

-----------------------------------------------------------------------------
(* C6 *)

\* C6: handleTableChange issues no markets request with the new page number
\* and the old page size, or the old page number and the new page size.
C6_PageAndSizeTogether ==
    [][ lastOp'.op = "handleTableChange"
            => \A r \in Issued :
                  r.query.page = currentPage' /\ r.query.per_page = perPage'
      ]_vars

\* The pagination control changed the page number and the page size at once
C6_Witness ==
    /\ lastOp.op = "handleTableChange"
    /\ lastOp.pre[2] # perPage
    /\ lastOp.pre[4] # currentPage
    /\ \E r \in inflight : r.seq = nDispatch /\ r.query = Projection(Deps)

-----------------------------------------------------------------------------
(* C8 *)

\* C8: a failed markets request records the error and leaves the displayed
\* rows exactly as they were.
C8_FailureKeepsRows ==
    [][ lastOp'.op = "fetchCoinsRejected"
            => coins' = coins /\ error' = FetchErrorMessage
      ]_vars

\* A request failed while the rows of an earlier answer were displayed
C8_Witness ==
    /\ lastOp.op = "fetchCoinsRejected"
    /\ coins = <<"Tether", "Bitcoin">>
    /\ error = FetchErrorMessage

-----------------------------------------------------------------------------
(* C9 *)

\* The catalog positions whose name is the typed name, letter case aside
MatchingPositions(list, name) ==
    {i \in 1..Len(list) :
        /\ Len(list[i].name) = Len(name)
        /\ \A k \in 1..Len(name) :
              toLowerCaseChar(list[i].name[k]) = toLowerCaseChar(name[k])}

\* The id at the least of those positions, the empty string when there is none
FirstMatchId(list, name) ==
    LET M == MatchingPositions(list, name)
    IN  IF M = {} THEN ""
        ELSE list[CHOOSE i \in M : \A j \in M : i <= j].id

\* C9: handleSearch sets the search id to the id of the first catalog entry
\* whose name is the typed name, letter case aside, and to none when no entry
\* has that name; it sets no error.
C9_SearchResolution ==
    [][ lastOp'.op = "handleSearch"
            => searchString' = FirstMatchId(allCoins, searchInput) /\ error' = error
      ]_vars

\* The typed name is, letter case aside, the name of two entries, written as
\* neither: the search id is the id of the first
C9_Witness ==
    /\ lastOp.op = "handleSearch"
    /\ Cardinality(MatchingPositions(allCoins, searchInput)) = 2
    /\ \A i \in 1..Len(allCoins) : allCoins[i].name # searchInput
    /\ searchString = "bitcoin"

-----------------------------------------------------------------------------
(* C10 *)

\* The catalog entries, in catalog order, whose name starts with the typed
\* text, letter case aside
PrefixMatches(list, prefix) ==
    SelectSeq(list,
              LAMBDA e : /\ Len(prefix) <= Len(e.name)
                         /\ \A k \in 1..Len(prefix) :
                               toLowerCaseChar(e.name[k]) = toLowerCaseChar(prefix[k]))

\* C10 as stated: after handleInputChange the suggestion list is, for a
\* non-empty text, the entries whose name starts with it, and empty for the
\* empty text.
C10_AsStated ==
    [][ lastOp'.op = "handleInputChange"
            => filteredOptions' = IF searchInput' # << >>
                                  THEN PrefixMatches(allCoins, searchInput')
                                  ELSE << >>
      ]_vars

\* C10 as amended: after handleInputChange the suggestion list is, for a text
\* with a character that is not white space, the entries whose name starts
\* with the text as typed, and empty for an empty or all-blank text.
C10_PrefixSuggestions ==
    [][ lastOp'.op = "handleInputChange"
            => filteredOptions' =
                  IF \E k \in 1..Len(searchInput') : searchInput'[k] \notin Whitespace
                  THEN PrefixMatches(allCoins, searchInput')
                  ELSE << >>
      ]_vars

\* A blank was typed with a catalog loaded that has a name starting with a
\* blank: no suggestion is listed
C10_Witness ==
    /\ lastOp.op = "handleInputChange"
    /\ searchInput = <<" ">>
    /\ PrefixMatches(allCoins, searchInput) # << >>
    /\ filteredOptions = << >>

\* A letter was typed that starts two names, one of them in the other case
C10_WitnessLetter ==
    /\ lastOp.op = "handleInputChange"
    /\ searchInput = <<"b">>
    /\ Len(filteredOptions) = 2

-----------------------------------------------------------------------------
(* C11 *)

\* What setting the empty search term does to the filter state and to the
\* requests: the search id becomes none, the other four fields stay, and a
\* request with the new filter state goes out exactly when a search id was set
SetsEmptySearchTerm ==
    /\ searchString' = ""
    /\ UNCHANGED <<currency, sortOrder, perPage, currentPage>>
    /\ IF searchString = ""
       THEN UNCHANGED <<nDispatch, inflight, loading, lastQuery>>
       ELSE /\ nDispatch' = nDispatch + 1
            /\ Issued = {[seq |-> nDispatch + 1,
                          query |-> Projection(<<currency, perPage, sortOrder,
                                                 currentPage, "">>)]}
            /\ loading'

\* C11: handleClearSearch does to the filter state and to the requests what
\* setting the empty search term does (as handleSearch does for a name that
\* matches no entry), and also empties the search box and the suggestion list.
C11_ClearIsEmptySearch ==
    [][ /\ lastOp'.op = "handleClearSearch"
              => SetsEmptySearchTerm /\ searchInput' = << >> /\ filteredOptions' = << >>
        /\ (lastOp'.op = "handleSearch" /\ FirstMatchId(allCoins, searchInput) = "")
              => SetsEmptySearchTerm
      ]_vars

\* Clear was pressed with a search committed and a name in the box: the search
\* id is none, the box is empty and a request is out
C11_Witness ==
    /\ lastOp.op = "handleClearSearch"
    /\ lastOp.pre[5] = "bitcoin"
    /\ searchString = ""
    /\ searchInput = << >>
    /\ filteredOptions = << >>
    /\ \E r \in inflight : r.seq = nDispatch /\ r.query.ids = ""

-----------------------------------------------------------------------------
(* C12 *)

\* The descriptor of the default filter state: no search parameter
DefaultDescriptor ==
    [vs_currency |-> "USD", order |-> "market_cap_desc", per_page |-> 10,
     page |-> 1, sparkline |-> FALSE]

\* C12: the filter state starts as USD, market cap descending, 10 per page,
\* page 1, no search; the mount issues exactly one markets request, with that
\* descriptor; when it is answered before any filter changed, the rows are
\* the answer's, loading is false and no error is set.
C12_Startup ==
    /\ [](~mounted => Deps = <<"USD", 10, "market_cap_desc", 1, "">> /\ nDispatch = 0)
    /\ [][ /\ lastOp'.op = "Mount"
                 => Issued = {[seq |-> 1, query |-> DefaultDescriptor]} /\ nDispatch' = 1
           /\ (lastOp'.op = "fetchCoinsResolved" /\ nDispatch = 1)
                 => coins' \in MarketResponses /\ ~loading' /\ error' = Null
         ]_vars

-----------------------------------------------------------------------------
(* C13 *)

\* C13: with an error recorded, a setter call that changes the filter state
\* can be taken and issues a markets request; when the latest request is
\* answered, the rows are the answer's, the error is cleared and loading is
\* false.
C13_FailureRecoverable ==
    /\ []((mounted /\ error # Null)
             => ENABLED (\E value \in Currencies :
                            handleCurrencyChange(value) /\ nDispatch' = nDispatch + 1))
    /\ [][ /\ (error # Null /\ lastOp'.op \in Setters /\ Deps' # Deps)
                 => nDispatch' = nDispatch + 1 /\ Cardinality(Issued) = 1 /\ loading'
           /\ (lastOp'.op = "fetchCoinsResolved" /\ \E r \in Settled : r.seq = nDispatch)
                 => coins' \in MarketResponses /\ error' = Null /\ ~loading'
         ]_vars

\* After a failed request a filter was changed: a new request is out, the
\* only one unanswered
C13_Witness ==
    /\ error = FetchErrorMessage
    /\ lastOp.op \in Setters
    /\ lastOp.pre # Deps
    /\ loading
    /\ Cardinality(inflight) = 1
    /\ \E r \in inflight : r.seq = nDispatch

-----------------------------------------------------------------------------
(* C14 *)

\* C14: the failure of the catalog request changes nothing but the request's
\* own status: the catalog stays empty, the error of the markets requests is
\* not set, rows, loading, filter state and requests stay; from then on the
\* suggestion list is empty and a search resolves to none.
C14_CatalogFailureHarmless ==
    /\ [](catalogReq = "failed"
             => allCoins = << >> /\ filteredOptions = << >> /\ searchString = "")
    /\ [][ lastOp'.op = "fetchAllCoinsRejected"
              => UNCHANGED <<coins, currency, sortOrder, perPage, currentPage,
                             loading, error, searchInput, searchString, allCoins,
                             filteredOptions, mounted, inflight, nDispatch, lastQuery>>
         ]_vars

\* The catalog request has failed, a name of the catalog was typed and
\* searched: no search is set, no error is set, the rows of the answer are shown
C14_Witness ==
    /\ catalogReq = "failed"
    /\ lastOp.op = "handleSearch"
    /\ searchInput = <<"B", "I">>
    /\ searchString = ""
    /\ error = Null
    /\ coins # << >>

-----------------------------------------------------------------------------
(* C15 *)

\* C15: while the latest markets request is unanswered, loading is true.
C15_LoadingUntilLatestSettles ==
    (\E r \in inflight : r.seq = nDispatch) => loading

-----------------------------------------------------------------------------
(* C16 *)

\* C16: the error message is rendered exactly when an error is recorded and
\* no row is displayed; with rows displayed it is not rendered.
C16_ErrorShownOnlyWithoutRows ==
    /\ errorMessageShown <=> (error # Null /\ coins = << >>)
    /\ coins # << >> => ~errorMessageShown

\* A request failed with the rows of an earlier answer displayed: the error
\* is recorded and not rendered
C16_Witness ==
    /\ lastOp.op = "fetchCoinsRejected"
    /\ error = FetchErrorMessage
    /\ coins # << >>
    /\ ~errorMessageShown

-----------------------------------------------------------------------------
(* C17 *)

-----------------------------------------------------------------------------
(* C18 *)

\* C18: the mount and the settling of a markets or catalog request, stale or
\* not, leave currency, sort order, page size, page number and search id as
\* they were; these change in setter steps only.
C18_PipelineKeepsFilter ==
    [][ /\ lastOp'.op \in {"Mount", "fetchCoinsResolved", "fetchCoinsRejected",
                           "fetchAllCoinsResolved", "fetchAllCoinsRejected"}
              => Deps' = Deps
        /\ Deps' # Deps => lastOp'.op \in Setters
      ]_vars

\* A request sent with an earlier filter state was answered after the filter
\* changed: the filter state is the changed one
C18_Witness ==
    /\ lastOp.op = "fetchCoinsResolved"
    /\ lastOp.pre = Deps
    /\ \E r \in inflight : r.seq = nDispatch /\ r.query = Projection(Deps)
    /\ currentPage = 2
    /\ coins # << >>

-----------------------------------------------------------------------------
(* C19 *)

\* C19: handleInputChange changes the text of the search box and the
\* suggestion list and nothing else: no search id, no markets request, no
\* catalog request; the search id changes in handleSearch and
\* handleClearSearch only.
C19_TypingIsNoCommit ==
    [][ /\ lastOp'.op = "handleInputChange"
              => UNCHANGED <<coins, currency, sortOrder, perPage, currentPage,
                             loading, error, searchString, allCoins, mounted,
                             catalogReq, inflight, nDispatch, lastQuery>>
        /\ searchString' # searchString
              => lastOp'.op \in {"handleSearch", "handleClearSearch"}
      ]_vars

\* The name of a catalog entry was typed with the catalog loaded: it is
\* suggested, and no search is set
C19_Witness ==
    /\ lastOp.op = "handleInputChange"
    /\ searchInput = <<"B", "I">>
    /\ catalogReq = "done"
    /\ Len(filteredOptions) = 2
    /\ searchString = ""
    /\ nDispatch = 1

-----------------------------------------------------------------------------
(* C20 *)

\* C20: handleCurrencyChange changes the currency only, handleSortOrderChange
\* the sort order only, handleSearch and handleClearSearch the search id
\* only, handleTableChange the page number and the page size only; the
\* request issued after such a change carries the page number of before it.
C20_SetterFrames ==
    [][ /\ lastOp'.op = "handleCurrencyChange"
              => UNCHANGED <<sortOrder, perPage, currentPage, searchString>>
        /\ lastOp'.op = "handleSortOrderChange"
              => UNCHANGED <<currency, perPage, currentPage, searchString>>
        /\ lastOp'.op \in {"handleSearch", "handleClearSearch"}
              => UNCHANGED <<currency, sortOrder, perPage, currentPage>>
        /\ lastOp'.op = "handleTableChange"
              => UNCHANGED <<currency, sortOrder, searchString>>
        /\ lastOp'.op \in {"handleCurrencyChange", "handleSortOrderChange",
                           "handleSearch", "handleClearSearch"}
              => \A r \in Issued : r.query.page = currentPage
      ]_vars

\* The currency was changed on the second page: the page is still the second
\* and the request issued carries it
C20_Witness ==
    /\ lastOp.op = "handleCurrencyChange"
    /\ lastOp.pre[1] # currency
    /\ lastOp.pre[4] = 2
    /\ currentPage = 2
    /\ \E r \in inflight : r.seq = nDispatch /\ r.query.page = 2

====
